---- MODULE Spec2Model ----
(***************************************************************************)
(* Model selection (SelectorConstant, SelectorBIC, SelectorDIC,            *)
(* SelectorCV in my_model_selectors.py) and recognition (recognize in      *)
(* my_recognizer.py) of the ASL recognizer.                                *)
(*                                                                         *)
(* A fitted GaussianHMM is identified by its state count.  The trainer     *)
(* and the scorer are external: whether a fit raises, and what a score     *)
(* returns, are inputs.  A fit is deterministic in (data, state count,     *)
(* random_state), so fitting the same data with the same state count a     *)
(* second time has the outcome of the first.                               *)
(***************************************************************************)
EXTENDS Integers, Sequences, FiniteSets, TLC

\* ---------------------------------------------------------------- bounds
MaxComp == 3
MaxSeqs == 3
MaxLen == 2
MaxOthers == 2
MaxWords == 2
MaxItems == 2

\* ------------------------------------------------------------- constants
\* base_model's None (line 47): no model, as a state count
None == 0
\* nan, as a fraction
NaN == <<0, 0>>

DefaultNConstant == 3
BicSentinel == 100000000
DicSentinel == -100000000
CvSentinel == -100000
RecSentinel == -1000000000
\* recognize's None (line 29): no word
NoWord == "None"

Selectors == {"Constant", "BIC", "DIC", "CV"}
SearchSelectors == {"BIC", "DIC", "CV"}

\* state counts a selector can be asked for
States == 1..(MaxComp + 1)

\* the frame counts of a word's training sequences (self.lengths)
AllLengths == UNION {[1..k -> 1..MaxLen] : k \in 1..MaxSeqs}

\* log-likelihoods the scorer returns; the least one of each set is as far
\* out as the selector's sentinel, -21 and -10 give two candidates the same BIC
BicLogLs == {-50000000, -21, -10}
DicLogLs == {-100000010, -20, -10}
AltLogLs == {-20, -10}
CvLogLs == {-100000, -10}

\* what fitting a candidate and scoring it comes to: a fit that raises
\* ValueError, a score that raises ValueError, or a log-likelihood
Outcomes(logLs) ==
    {[err |-> e, logL |-> 0] : e \in {"fit_error", "score_error"}}
        \cup {[err |-> "none", logL |-> v] : v \in logLs}
\* what scoring another word's data comes to
AltOutcomes ==
    {[err |-> "score_error", logL |-> 0]}
        \cup {[err |-> "none", logL |-> v] : v \in AltLogLs}

\* the words of the models mapping, in its iteration order
WordOrder == <<"B", "A", "C", "D">>
RecLogLs == {-2000000000, -20, -10}
\* what model.score comes to for one word and one test item
RecOutcomes ==
    {[err |-> "score_error", logL |-> 0]}
        \cup {[err |-> "none", logL |-> v] : v \in RecLogLs}

VARIABLES
    selector,            \* the class whose select() runs
    n_constant,          \* self.n_constant
    min_n_components,    \* self.min_n_components
    max_n_components,    \* self.max_n_components
    lengths,             \* self.lengths; Len(lengths) = len(self.sequences)
    n_others,            \* number of words of self.hwords other than this_word
    pc,                  \* "start", "loop", "fold", "done", "raised"
    cur_comp_count,
    best_bic,
    best_dic,            \* <<numerator, denominator>>
    best_logL,           \* <<numerator, denominator>>
    best_comp_count,
    split_count,         \* SelectorCV: the n_splits last handed to KFold
    folds,               \* SelectorCV: the splits KFold last produced
    fold,                \* SelectorCV: the split the inner loop is at
    logLs,               \* SelectorCV: the candidate's fold scores
    fold_errors,         \* SelectorCV: what the candidate's failed folds raised in
    status,              \* per state count: what its evaluation in the loop met
    bics,                \* per state count: the BIC computed for it (tenths)
    evaluated,           \* the state counts the loop has evaluated, in order
    base_model_calls,    \* number of calls of base_model
    result               \* what select() returned: a state count or None

selvars == <<selector, n_constant, min_n_components, max_n_components, lengths,
             n_others, pc, cur_comp_count, best_bic, best_dic, best_logL,
             best_comp_count, split_count, folds, fold, logLs, fold_errors,
             status, bics, evaluated, base_model_calls, result>>

VARIABLES
    models,              \* the keys of models, in iteration order
    num_items,           \* test_set.num_items
    score_of,            \* per test item and word: what models[word].score gives
    rpc,                 \* "for_i", "for_m", "done"
    i,                   \* items finished so far (the loop index, from 0)
    m,                   \* position in models of the next m_key (from 1)
    p_hash,
    best_score,
    best_word,
    probabilities,
    guesses

recvars == <<models, num_items, score_of, rpc, i, m, p_hash, best_score,
             best_word, probabilities, guesses>>

vars == <<selvars, recvars>>

\* -------------------------------------------------------------- helpers
RECURSIVE SumSeq(_)
SumSeq(s) == IF s = <<>> THEN 0 ELSE Head(s) + SumSeq(Tail(s))

\* a/b > c/d for positive denominators
RatGreater(a, b) == a[1] * b[2] > b[1] * a[2]

\* np.log on the row counts the model reaches, in tenths, rounded
LnTable == <<0, 7, 11, 14, 16, 18, 19, 21, 22, 23, 24, 25>>
LnTenths(N) == IF N <= Len(LnTable) THEN LnTable[N] ELSE 26

InitSelector ==
    /\ selector \in Selectors
    /\ min_n_components \in 1..MaxComp
    /\ max_n_components \in 1..MaxComp
    \* inputs a selector never reads keep their default
    /\ n_constant \in (IF selector = "Constant" THEN States ELSE {DefaultNConstant})
    /\ lengths \in (IF selector \in {"BIC", "CV"} THEN AllLengths ELSE {<<1>>})
    /\ n_others \in (IF selector = "DIC" THEN 0..MaxOthers ELSE {0})
    /\ pc = "start"
    /\ cur_comp_count = 0
    /\ best_bic = 0
    /\ best_dic = <<0, 1>>
    /\ best_logL = <<0, 1>>
    /\ best_comp_count = 0
    /\ split_count = 0
    /\ folds = <<>>
    /\ fold = 0
    /\ logLs = <<>>
    /\ fold_errors = <<>>
    /\ status = [n \in States |-> "untried"]
    /\ bics = [n \in States |-> 0]
    /\ evaluated = <<>>
    /\ base_model_calls = 0
    /\ result = None

\* the loop test taken one candidate too far
LoopRunsPastMax(cur) == cur <= max_n_components + 1

\* lines 81, 114, 147: while cur_comp_count <= self.max_n_components
LoopRuns(cur) == cur <= max_n_components

\* lines 88, 126, 167: the comparisons that replace the running best
BicImproves(bic, best) == bic < best
DicImproves(dic, best) == dic # NaN /\ RatGreater(dic, best)
CvImproves(avg, best) == RatGreater(avg, best)

\* lines 86-87: p_val and bic; len(self.X) = sum(self.lengths).  The BIC is kept
\* in tenths (ten times the code's value, as is best_bic), so that the
\* logarithm is a whole number
PVal(n) == (n * n) + (2 * n * SumSeq(lengths)) - 1
Bic(n, logL) == (-2 * logL * 10) + (PVal(n) * LnTenths(SumSeq(lengths)))

\* lines 119-125: dic = logL - np.mean(otherLogLs); the mean of no values is nan
Dic(logL, otherLogLs) ==
    IF Len(otherLogLs) = 0 THEN NaN
    ELSE <<(Len(otherLogLs) * logL) - SumSeq(otherLogLs), Len(otherLogLs)>>

\* lines 149-151: split_count
FoldCount(n_sequences) == IF n_sequences < 3 THEN n_sequences ELSE 3

\* lines 152-153: sklearn's KFold refuses n_splits <= 1 when constructed and
\* n_splits > n_samples when split; both raise ValueError
KFoldRaises(k, n) == k <= 1 \/ k > n

\* lines 152-153: KFold(n_splits=k).split of n samples, unshuffled: fold f
\* holds out a contiguous block, the first n % k blocks one longer
FoldStart(f, k, n) ==
    ((f - 1) * (n \div k)) + (IF f - 1 < n % k THEN f - 1 ELSE n % k) + 1
KFoldSplit(k, n) ==
    [f \in 1..k |->
        LET test == FoldStart(f, k, n)..(FoldStart(f + 1, k, n) - 1)
        IN  [train |-> (1..n) \ test, test |-> test]]

\* line 154: combine_sequences(cv_train_idx, self.sequences); row count of train_X
TrainRows(idx) ==
    SumSeq([j \in 1..Len(lengths) |-> IF j \in idx THEN lengths[j] ELSE 0])

\* what the full-data fit of n states did when the loop ran it (SelectorBIC and
\* SelectorDIC fit self.X in the loop; SelectorCV fits fold subsets only)
FullFitSeen(n) ==
    IF selector \in {"BIC", "DIC"} /\ status[n] # "untried"
    THEN (IF status[n] = "fit_error" THEN {FALSE} ELSE {TRUE})
    ELSE BOOLEAN

\* lines 34-47 with lines 61, 95, 133, 171: return self.base_model(n)
ReturnBaseModel(n) ==
    \E fits \in FullFitSeen(n) :
        /\ result' = (IF fits THEN n ELSE None)
        /\ base_model_calls' = base_model_calls + 1
        /\ pc' = "done"

\* lines 55-61
SelectConstant ==
    /\ pc = "start"
    /\ selector = "Constant"
    /\ best_comp_count' = n_constant
    /\ ReturnBaseModel(n_constant)
    /\ UNCHANGED <<selector, n_constant, min_n_components, max_n_components,
                   lengths, n_others, cur_comp_count, best_bic, best_dic,
                   best_logL, split_count, folds, fold, logLs, fold_errors, status, bics, evaluated>>
    /\ UNCHANGED recvars

\* lines 78-80, 111-113, 144-146
SelectStart ==
    /\ pc = "start"
    /\ selector \in SearchSelectors
    /\ cur_comp_count' = min_n_components
    /\ best_comp_count' = min_n_components
    /\ best_bic' = (IF selector = "BIC" THEN BicSentinel * 10 ELSE best_bic)
    /\ best_dic' = (IF selector = "DIC" THEN <<DicSentinel, 1>> ELSE best_dic)
    /\ best_logL' = (IF selector = "CV" THEN <<CvSentinel, 1>> ELSE best_logL)
    /\ pc' = "loop"
    /\ UNCHANGED <<selector, n_constant, min_n_components, max_n_components,
                   lengths, n_others, split_count, folds, fold, logLs, fold_errors, status, bics,
                   evaluated, base_model_calls, result>>
    /\ UNCHANGED recvars

\* the end of one iteration of the while loop
Advance(what) ==
    /\ status' = [status EXCEPT ![cur_comp_count] = what]
    /\ evaluated' = Append(evaluated, cur_comp_count)
    /\ cur_comp_count' = cur_comp_count + 1

\* lines 81-94: one iteration of SelectorBIC's loop
BICStep ==
    /\ pc = "loop"
    /\ selector = "BIC"
    /\ LoopRuns(cur_comp_count)
    /\ \E out \in Outcomes(BicLogLs) :
        IF out.err # "none"
        THEN /\ Advance(out.err)
             /\ UNCHANGED <<best_bic, best_comp_count, bics>>
        ELSE LET bic == Bic(cur_comp_count, out.logL)
             IN  /\ Advance("scored")
                 /\ bics' = [bics EXCEPT ![cur_comp_count] = bic]
                 /\ IF BicImproves(bic, best_bic)
                    THEN /\ best_bic' = bic
                         /\ best_comp_count' = cur_comp_count
                    ELSE UNCHANGED <<best_bic, best_comp_count>>
    /\ UNCHANGED <<selector, n_constant, min_n_components, max_n_components,
                   lengths, n_others, pc, best_dic, best_logL, split_count,
                   folds, fold, logLs, fold_errors, base_model_calls, result>>
    /\ UNCHANGED recvars

\* lines 114-132: one iteration of SelectorDIC's loop
DICStep ==
    /\ pc = "loop"
    /\ selector = "DIC"
    /\ LoopRuns(cur_comp_count)
    /\ \E out \in Outcomes(DicLogLs), alt \in [1..n_others -> AltOutcomes] :
        IF out.err # "none"
        THEN /\ Advance(out.err)
             /\ UNCHANGED <<best_dic, best_comp_count>>
        ELSE IF \E w \in 1..n_others : alt[w].err # "none"
        THEN /\ Advance("alt_error")
             /\ UNCHANGED <<best_dic, best_comp_count>>
        ELSE LET dic == Dic(out.logL, [w \in 1..n_others |-> alt[w].logL])
             IN  /\ Advance("scored")
                 /\ IF DicImproves(dic, best_dic)
                    THEN /\ best_dic' = dic
                         /\ best_comp_count' = cur_comp_count
                    ELSE UNCHANGED <<best_dic, best_comp_count>>
    /\ UNCHANGED <<selector, n_constant, min_n_components, max_n_components,
                   lengths, n_others, pc, best_bic, best_logL, split_count,
                   folds, fold, logLs, fold_errors, bics, base_model_calls, result>>
    /\ UNCHANGED recvars

\* lines 147-152: an iteration of SelectorCV's loop begins: KFold is built
CVSplit ==
    /\ pc = "loop"
    /\ selector = "CV"
    /\ LoopRuns(cur_comp_count)
    /\ LET n == Len(lengths)
           k == FoldCount(n)
       IN  /\ split_count' = k
           /\ IF KFoldRaises(k, n)
              THEN /\ pc' = "raised"
                   /\ UNCHANGED <<folds, fold, logLs, fold_errors>>
              ELSE /\ pc' = "fold"
                   /\ folds' = KFoldSplit(k, n)
                   /\ fold' = 1
                   /\ logLs' = <<>>
                   /\ fold_errors' = <<>>
    /\ UNCHANGED <<selector, n_constant, min_n_components, max_n_components,
                   lengths, n_others, cur_comp_count, best_bic, best_dic,
                   best_logL, best_comp_count, status, bics, evaluated,
                   base_model_calls, result>>
    /\ UNCHANGED recvars

\* lines 153-164: one fold
CVFold ==
    /\ pc = "fold"
    /\ fold <= Len(folds)
    /\ IF TrainRows(folds[fold].train) >= cur_comp_count
       THEN \E out \in Outcomes(CvLogLs) :
                IF out.err # "none"
                THEN /\ fold_errors' = Append(fold_errors, out.err)
                     /\ UNCHANGED logLs
                ELSE /\ logLs' = Append(logLs, out.logL)
                     /\ UNCHANGED fold_errors
       ELSE UNCHANGED <<logLs, fold_errors>>
    /\ fold' = fold + 1
    /\ UNCHANGED <<selector, n_constant, min_n_components, max_n_components,
                   lengths, n_others, pc, cur_comp_count, best_bic, best_dic,
                   best_logL, best_comp_count, split_count, folds, status,
                   bics, evaluated, base_model_calls, result>>
    /\ UNCHANGED recvars

\* what the folds of one candidate came to
FoldsStatus ==
    IF logLs = <<>> /\ fold_errors = <<>> THEN "skipped"
    ELSE IF fold_errors = <<>> THEN "scored"
    ELSE IF logLs = <<>> /\ (\A e \in 1..Len(fold_errors) : fold_errors[e] = "fit_error")
    THEN "fit_error"
    ELSE "mixed"

\* lines 165-170: the folds are over
CVEnd ==
    /\ pc = "fold"
    /\ fold > Len(folds)
    /\ LET avg_logL == <<SumSeq(logLs), Len(logLs)>>
       IN  IF Len(logLs) > 0 /\ CvImproves(avg_logL, best_logL)
           THEN /\ best_logL' = avg_logL
                /\ best_comp_count' = cur_comp_count
           ELSE UNCHANGED <<best_logL, best_comp_count>>
    /\ Advance(FoldsStatus)
    /\ pc' = "loop"
    /\ UNCHANGED <<selector, n_constant, min_n_components, max_n_components,
                   lengths, n_others, best_bic, best_dic, split_count, folds,
                   fold, logLs, fold_errors, bics, base_model_calls, result>>
    /\ UNCHANGED recvars

\* lines 95, 133, 171: the loop is over
SelectReturn ==
    /\ pc = "loop"
    /\ selector \in SearchSelectors
    /\ ~LoopRuns(cur_comp_count)
    /\ ReturnBaseModel(best_comp_count)
    /\ UNCHANGED <<selector, n_constant, min_n_components, max_n_components,
                   lengths, n_others, cur_comp_count, best_bic, best_dic,
                   best_logL, best_comp_count, split_count, folds, fold, logLs, fold_errors, status,
                   bics, evaluated>>
    /\ UNCHANGED recvars

\* ------------------------------------------------------------ recognize
EmptyMap == [w \in {} |-> 0]
Put(h, k, v) == [w \in DOMAIN h \cup {k} |-> IF w = k THEN v ELSE h[w]]
Keys(ms) == {ms[j] : j \in 1..Len(ms)}

InitRecognizer ==
    /\ models \in {SubSeq(WordOrder, 1, k) : k \in 0..MaxWords}
    /\ num_items \in 0..MaxItems
    /\ score_of \in [1..num_items -> [Keys(models) -> RecOutcomes]]
    /\ rpc = "for_i"
    /\ i = 0
    /\ m = 0
    /\ p_hash = EmptyMap
    /\ best_score = 0
    /\ best_word = NoWord
    /\ probabilities = <<>>
    /\ guesses = <<>>

\* best_score set once, before the loop over the items
StaleScore(old) == IF i = 0 THEN RecSentinel ELSE old

\* lines 27-29: the accumulators an item starts from
FreshHash(old) == EmptyMap
FreshScore(old) == RecSentinel
FreshWord(old) == NoWord

\* line 35: if logL > best_score
RecImproves(logL, best) == logL > best

\* lines 23-29: the next test item
ItemStart ==
    /\ rpc = "for_i"
    /\ i < num_items
    /\ p_hash' = FreshHash(p_hash)
    /\ best_score' = FreshScore(best_score)
    /\ best_word' = FreshWord(best_word)
    /\ m' = 1
    /\ rpc' = "for_m"
    /\ UNCHANGED <<models, num_items, score_of, i, probabilities, guesses>>
    /\ UNCHANGED selvars

\* lines 30-39: one word's model scores the item
ScoreModel ==
    /\ rpc = "for_m"
    /\ m <= Len(models)
    /\ LET m_key == models[m]
           out == score_of[i + 1][m_key]
       IN  IF out.err # "none"
           THEN UNCHANGED <<p_hash, best_score, best_word>>
           ELSE /\ p_hash' = Put(p_hash, m_key, out.logL)
                /\ IF RecImproves(out.logL, best_score)
                   THEN /\ best_score' = out.logL
                        /\ best_word' = m_key
                   ELSE UNCHANGED <<best_score, best_word>>
    /\ m' = m + 1
    /\ UNCHANGED <<models, num_items, score_of, rpc, i, probabilities, guesses>>
    /\ UNCHANGED selvars

\* lines 40-41
ItemEnd ==
    /\ rpc = "for_m"
    /\ m > Len(models)
    /\ probabilities' = Append(probabilities, p_hash)
    /\ guesses' = Append(guesses, best_word)
    /\ i' = i + 1
    /\ rpc' = "for_i"
    /\ UNCHANGED <<models, num_items, score_of, m, p_hash, best_score, best_word>>
    /\ UNCHANGED selvars

\* line 42
RecognizeReturn ==
    /\ rpc = "for_i"
    /\ i >= num_items
    /\ rpc' = "done"
    /\ UNCHANGED <<models, num_items, score_of, i, m, p_hash, best_score,
                   best_word, probabilities, guesses>>
    /\ UNCHANGED selvars

\* ------------------------------------------------------- specifications
\* select() of one selector on one word; recognize is not running
IdleRecognizer ==
    /\ models = <<>>
    /\ num_items = 0
    /\ score_of = <<>>
    /\ rpc = "idle"
    /\ i = 0
    /\ m = 0
    /\ p_hash = EmptyMap
    /\ best_score = 0
    /\ best_word = NoWord
    /\ probabilities = <<>>
    /\ guesses = <<>>

\* recognize() on one models mapping and one test set; no selector is running
IdleSelector ==
    /\ selector = "Constant"
    /\ min_n_components = 1
    /\ max_n_components = 1
    /\ n_constant = DefaultNConstant
    /\ lengths = <<1>>
    /\ n_others = 0
    /\ pc = "idle"
    /\ cur_comp_count = 0
    /\ best_bic = 0
    /\ best_dic = <<0, 1>>
    /\ best_logL = <<0, 1>>
    /\ best_comp_count = 0
    /\ split_count = 0
    /\ folds = <<>>
    /\ fold = 0
    /\ logLs = <<>>
    /\ fold_errors = <<>>
    /\ status = [n \in States |-> "untried"]
    /\ bics = [n \in States |-> 0]
    /\ evaluated = <<>>
    /\ base_model_calls = 0
    /\ result = None

Init == InitSelector /\ IdleRecognizer

Next ==
    \/ SelectConstant
    \/ SelectStart
    \/ BICStep
    \/ DICStep
    \/ CVSplit
    \/ CVFold
    \/ CVEnd
    \/ SelectReturn

Spec == Init /\ [][Next]_vars

InitRecognize == IdleSelector /\ InitRecognizer

NextRecognize ==
    \/ ItemStart
    \/ ScoreModel
    \/ ItemEnd
    \/ RecognizeReturn

SpecRecognize == InitRecognize /\ [][NextRecognize]_vars

\* ------------------------------------------------------- select(): claims
Range == min_n_components..max_n_components
Returned == pc = "done"
\* the candidates that were fitted and scored without any error
ScoredOK == {n \in Range : status[n] = "scored"}

\* C1 as stated: every selector returns None or a model whose state count
\* lies in [min_n_components, max_n_components].
C1_AllSelectorsInRange ==
    Returned =>
        \/ result = None
        \/ (min_n_components <= result /\ result <= max_n_components)

\* C1, amended: whenever select() returns, SelectorConstant returns None or a
\* model of n_constant states; SelectorBIC, SelectorDIC and SelectorCV return
\* None, or a model whose state count lies in the range, or, when the range is
\* empty (min_n_components > max_n_components), a model of min_n_components
\* states.
C1_ResultStateCount ==
    Returned =>
        \/ result = None
        \/ (selector = "Constant" /\ result = n_constant)
        \/ /\ selector \in SearchSelectors
           /\ \/ (min_n_components <= result /\ result <= max_n_components)
              \/ (min_n_components > max_n_components /\ result = min_n_components)

\* a search that ended on a candidate other than the one it started from
C1_SearchMovedWitness ==
    /\ Returned
    /\ selector \in SearchSelectors
    /\ result # None
    /\ result > min_n_components
    /\ Len(evaluated) = max_n_components - min_n_components + 1

\* C2: SelectorBIC, SelectorDIC and SelectorCV return None only when every
\* candidate failed: once a candidate was fitted and its score computed,
\* select() returns a model, whatever failed for the other candidates, for a
\* fold or for another word's score.
C2_AbsentOnlyIfAllFailed ==
    (selector \in SearchSelectors /\ Returned) =>
        ((\E n \in Range : status[n] \in {"scored", "alt_error"}) => result # None)

\* C3: when exactly one candidate of the range fits (and is scored) and every
\* other candidate fails to fit, the search selectors return a model of that
\* state count.  (SelectorCV's final fit of the whole data is a fit of its own;
\* the claim is not held against its failing.)
C3_OnlyFittingCandidateWins ==
    (selector \in SearchSelectors /\ Returned) =>
        \A n \in Range :
            (ScoredOK = {n} /\ (\A o \in Range \ {n} : status[o] = "fit_error"))
                => \/ result = n
                   \/ (selector = "CV" /\ best_comp_count = n /\ result = None)

\* the least BIC among the scored candidates, and the smallest state count with it
MinBic == CHOOSE b \in {bics[n] : n \in ScoredOK} : \A n \in ScoredOK : b <= bics[n]
ArgMinBic == CHOOSE n \in ScoredOK : bics[n] = MinBic /\ (\A o \in ScoredOK : bics[o] = MinBic => n <= o)

\* C4: SelectorBIC re-fits the state count of least BIC among the candidates
\* that were fitted and scored, the smaller state count on a tie.
C4_RefitsLeastBic ==
    (selector = "BIC" /\ Returned /\ ScoredOK # {}) => best_comp_count = ArgMinBic

\* C4 where every BIC is below the sentinel: the same statement
C4_BelowSentinel ==
    (selector = "BIC" /\ Returned /\ ScoredOK # {} /\ MinBic < BicSentinel * 10)
        => best_comp_count = ArgMinBic

\* C9: SelectorCV splits the word's sequences into 3 folds, or into as many
\* folds as there are sequences when there are fewer than 3; every fold holds
\* out at least one sequence; this for every sequence count, 1 and 2 included.
C9_FoldsPartitionSequences ==
    (selector = "CV" /\ split_count # 0) =>
        /\ pc # "raised"
        /\ split_count = (IF Len(lengths) >= 3 THEN 3 ELSE Len(lengths))
        /\ split_count <= Len(lengths)
        /\ Len(folds) = split_count
        /\ \A f \in 1..Len(folds) : folds[f].test # {}
        /\ UNION {folds[f].test : f \in 1..Len(folds)} = 1..Len(lengths)

\* C9 but for the split itself: the fold count handed to KFold
C9_SplitCountOnly ==
    (selector = "CV" /\ split_count # 0) =>
        /\ split_count = (IF Len(lengths) >= 3 THEN 3 ELSE Len(lengths))
        /\ (pc # "raised" =>
               /\ Len(folds) = split_count
               /\ \A f \in 1..Len(folds) : folds[f].test # {})

\* C10: the search loops evaluate min_n_components, ..., max_n_components, each
\* once and in ascending order, whatever fails; then the loop ends and
\* base_model is called exactly once.
C10_ScanThenOneRefit ==
    selector \in SearchSelectors =>
        /\ pc # "raised"
        /\ \A j \in 1..Len(evaluated) :
               evaluated[j] = min_n_components + j - 1 /\ evaluated[j] <= max_n_components
        /\ pc \in {"loop", "fold"} => base_model_calls = 0
        /\ Returned =>
               /\ Len(evaluated) = Cardinality(Range)
               /\ base_model_calls = 1

\* C10 up to the point where select() raises: the order of the scan and the
\* single call of base_model
C10_ScanOrderUntilRaise ==
    selector \in SearchSelectors =>
        /\ \A j \in 1..Len(evaluated) :
               evaluated[j] = min_n_components + j - 1 /\ evaluated[j] <= max_n_components
        /\ pc \in {"loop", "fold", "raised"} => base_model_calls = 0
        /\ Returned =>
               /\ Len(evaluated) = Cardinality(Range)
               /\ base_model_calls = 1
        /\ pc = "raised" => (selector = "CV" /\ Len(lengths) = 1)

\* ------------------------------------------------------ recognize(): claims
\* the scores of test item j that did not raise, by word
ItemScores(j) ==
    [w \in {x \in Keys(models) : score_of[j][x].err = "none"} |-> score_of[j][w].logL]
Position(w) == CHOOSE j \in 1..Len(models) : models[j] = w
\* the words of a mapping h that hold its greatest value
Top(h) == {w \in DOMAIN h : \A x \in DOMAIN h : h[x] <= h[w]}
First(ws) == CHOOSE w \in ws : \A x \in ws : Position(w) <= Position(x)
\* the guess of an item from that item's scores alone
ItemGuess(j) ==
    LET above == {w \in DOMAIN ItemScores(j) : ItemScores(j)[w] > RecSentinel}
        h == [w \in above |-> ItemScores(j)[w]]
    IN  IF above = {} THEN NoWord ELSE First(Top(h))
Finished == 1..Len(probabilities)

\* C5: probabilities and guesses have one entry per test item, in item order,
\* and entry j is what item j's scores alone give.
C5_AlignedPerItem ==
    /\ Len(probabilities) = i
    /\ Len(guesses) = i
    /\ i <= num_items
    /\ rpc = "done" => i = num_items
    /\ \A j \in Finished :
           /\ probabilities[j] = ItemScores(j)
           /\ guesses[j] = ItemGuess(j)

\* two items done whose mappings and guesses differ
C5_TwoItemsWitness ==
    /\ rpc = "done"
    /\ num_items >= 2
    /\ DOMAIN probabilities[2] # DOMAIN probabilities[1]
    /\ DOMAIN probabilities[2] # {}
    /\ guesses[1] # NoWord
    /\ guesses[2] # NoWord
    /\ probabilities[2][guesses[2]] < probabilities[1][guesses[1]]

\* C6: a word whose model raises on an item is left out of that item's
\* mapping, the other words keep their own scores, and the failure does not
\* touch the best word: of two words, one raising, the other is the guess.
C6_FailureLeavesOthers ==
    \A j \in Finished :
        /\ probabilities[j] = ItemScores(j)
        /\ \A a \in Keys(models), b \in Keys(models) :
               (Len(models) = 2 /\ score_of[j][a].err # "none" /\ score_of[j][b].err = "none")
                   => guesses[j] = b

\* C7: the guess is a highest-scoring word of the item's mapping, and is None
\* exactly when the mapping is empty.
C7_GuessIsMaximum ==
    \A j \in Finished :
        /\ guesses[j] = NoWord <=> DOMAIN probabilities[j] = {}
        /\ guesses[j] # NoWord => guesses[j] \in Top(probabilities[j])

\* C7 for the items with a score above the sentinel
C7_AboveSentinel ==
    \A j \in Finished :
        (\E w \in DOMAIN probabilities[j] : probabilities[j][w] > RecSentinel)
            => guesses[j] \in Top(probabilities[j])

\* C8: when two words share the item's greatest score, the guess is the one
\* earlier in the mapping's iteration order.
C8_TieGoesToEarlier ==
    \A j \in Finished :
        Cardinality(Top(probabilities[j])) >= 2 => guesses[j] = First(Top(probabilities[j]))

\* C8 for ties above the sentinel
C8_AboveSentinel ==
    \A j \in Finished :
        (/\ Cardinality(Top(probabilities[j])) >= 2
         /\ \E w \in DOMAIN probabilities[j] : probabilities[j][w] > RecSentinel)
            => guesses[j] = First(Top(probabilities[j]))
====
